---- MODULE Spec2Model ----
(***************************************************************************)
(* ShardedOptimizerV2 (colossalai/zero/sharded_optim/sharded_optim_v2.py): *)
(* the mixed-precision optimizer wrapper, one instance per process of a    *)
(* data-parallel x model-parallel grid.  Each process runs backward /      *)
(* backward_by_grad / clip_grad_norm / step on its own state; the          *)
(* processes meet only in the two all-reduce collectives of                *)
(* _check_overflow, where step() is split.                                 *)
(*                                                                         *)
(* Tensors hold small integers.  A float32 tensor holds any integer, a     *)
(* float16 tensor only the values Half keeps.  A gradient is a record      *)
(* [k, v]: absent (None), nan, inf, or finite with value v.                *)
(***************************************************************************)
EXTENDS Integers, Sequences, FiniteSets, TLC

VARIABLES
    dp_process_group,   \* self.dp_process_group: the processes of this process's data-parallel group
    mp_process_group,   \* self.mp_process_group
    param_groups,       \* self.optim.param_groups: a sequence of groups, each a sequence of parameters
    dtype,              \* the dtype of each parameter's data (plain) or shard payload (sharded)
    init_args,          \* the scaler arguments __init__ was called with
    grad_scaler,        \* self.grad_scaler: configuration, scale and counters
    optim_state,        \* self.optim_state
    found_overflow,     \* self._found_overflow, a one-element tensor
    master_params,      \* self.master_params[p]: the tensor the master entry refers to
    p_data,             \* p.data: the tensor the parameter's data refers to
    tensor,             \* the value each tensor holds
    grad,               \* p.grad
    optim_steps,        \* the base optimizer's internal state: the updates it has applied
    pc,                 \* where the process is: idle, inside step() at a collective, or halted
    ret,                \* what the last step() returned
    err,                \* the exception that halted the process, if any
    last_op,            \* history: the last operation the process completed
    nsteps,             \* history: step() calls begun
    coll,               \* history: the collectives of the current (or last) step() call, in order
    rlog,               \* history: one entry per step() call: what the process held, found and did
    pre,                \* history: the state step() found when it was called
    seen,               \* history: the gradients the base optimizer's step last read
    bw,                 \* history: the last backward(): its loss, the scale it used, the gradients, the unscales since
    grad_factor,        \* history: the loss-scale factor the held gradients carry, <<multiplied, divided>>
    reference           \* the reference model of the tests: its parameters, updated by the base optimizer alone

config == <<dp_process_group, mp_process_group, param_groups, dtype, init_args>>
fields == <<grad_scaler, optim_state, found_overflow, master_params>>
params == <<p_data, tensor, grad, optim_steps>>
control == <<pc, ret, err>>
history == <<last_op, nsteps, coll, rlog, pre, seen, bw, grad_factor>>
vars == <<config, fields, params, control, history, reference>>

----------------------------------------------------------------------------
(* Bounds *)

\* step() calls per process.
MaxRounds == 2

DpRanks == {0, 1}
MpRanks == {0, 1}
\* A process is <<data-parallel rank, model-parallel rank>>.
Proc == DpRanks \X MpRanks
\* Parameters: "w" is a plain parameter, "s" carries ca_attr (a sharded
\* parameter), "u" carries a ca_attr whose is_sharded is false.
Params == {"w", "s", "u"}
Tensors == {"data0", "fp32", "payload"}

World == {q \in Proc : q \in dp_process_group[q]}

Max(a, b) == IF a >= b THEN a ELSE b
Min(a, b) == IF a <= b THEN a ELSE b
Abs(a) == IF a < 0 THEN -a ELSE a
MaxOf(S) == CHOOSE x \in S : \A y \in S : y <= x

RECURSIVE Flatten(_)
Flatten(groups) ==
    IF groups = <<>> THEN {}
    ELSE {Head(groups)[i] : i \in 1..Len(Head(groups))} \cup Flatten(Tail(groups))

\* The parameters of process q's base optimizer.
ParamsOf(q) == Flatten(param_groups[q])

----------------------------------------------------------------------------
(* Gradients and tensors *)

NoGrad == [k |-> "none", v |-> 0]
NaN == [k |-> "nan", v |-> 0]
Inf == [k |-> "inf", v |-> 0]
Fin(x) == [k |-> "fin", v |-> x]

\* float32 -> float16: integers up to 4 in magnitude are kept, larger ones
\* are rounded down to a multiple of 2 (float16's coarser grid).
Half(x) == IF Abs(x) <= 4 THEN x ELSE (x \div 2) * 2

\* Tensor.to(dtype) / Tensor.copy_ into a tensor of dtype dt.
Conv(dt, x) == IF dt = "half" THEN Half(x) ELSE x

HasCaAttr(p) == p \in {"s", "u"}
\* p.ca_attr.is_sharded
IsSharded(p) == p = "s"

\* The dtype of tensor t of parameter p on process q.
TensorDtype(q, p, t) == IF t = "fp32" THEN "float" ELSE dtype[q][p]

\* The value of the master entry of p, and of p.data.
Master(q, p) == tensor[q][p][master_params[q][p]]
Data(q, p) == tensor[q][p][p_data[q][p]]
Payload(q, p) == tensor[q][p]["payload"]

----------------------------------------------------------------------------
(* The dynamic loss scaler (colossalai.amp.naive_amp DynamicGradScaler),   *)
(* after section 4.1 of the specification.                                 *)

\* DynamicGradScaler(...): the scaler after construction.  backoff_factor is
\* the fraction <<numerator, denominator>>.
DynamicGradScaler(initial_scale, min_scale, growth_factor, backoff_factor, growth_interval, hysteresis, max_scale) ==
    [scale |-> initial_scale, min_scale |-> min_scale, max_scale |-> max_scale,
     growth_factor |-> growth_factor, backoff_factor |-> backoff_factor,
     growth_interval |-> growth_interval, hysteresis |-> hysteresis,
     growth_tracker |-> 0, clean_cycles |-> 0, log |-> <<>>]

\* scale * backoff_factor, floored at min_scale.
BackedOff(sc) ==
    LET n == sc.backoff_factor[1]
        d == sc.backoff_factor[2]
    IN  IF sc.scale * n <= sc.min_scale * d THEN sc.min_scale ELSE (sc.scale * n) \div d

\* scale * growth_factor, capped at max_scale.
Grown(sc) == Min(sc.scale * sc.growth_factor, sc.max_scale)

\* The scale and the counters after update(found_inf).  An overflow backs the
\* scale off and resets the counters.  A clean update counts towards
\* growth_interval; a completed interval is a clean cycle, and the scale grows
\* at a completed interval once hysteresis consecutive clean cycles have elapsed.
Updated(sc, found_inf) ==
    IF found_inf
    THEN [sc EXCEPT !.scale = BackedOff(sc), !.growth_tracker = 0, !.clean_cycles = 0]
    ELSE IF sc.growth_tracker + 1 = sc.growth_interval
         THEN LET cyc == Min(sc.clean_cycles + 1, sc.hysteresis)
              IN  [sc EXCEPT !.growth_tracker = 0,
                             !.clean_cycles = cyc,
                             !.scale = IF cyc >= sc.hysteresis THEN Grown(sc) ELSE @]
         ELSE [sc EXCEPT !.growth_tracker = @ + 1]

\* grad_scaler.update(found_inf); log is the history of the calls, each with
\* the scale it left.
ScalerUpdate(sc, found_inf) ==
    [Updated(sc, found_inf) EXCEPT
        !.log = Append(@, [found_inf |-> found_inf, scale |-> Updated(sc, found_inf).scale])]

\* grad_scaler.scale, read through the loss_scale property.
loss_scale(q) == grad_scaler[q].scale

----------------------------------------------------------------------------
(* Construction: ShardedOptimizerV2.__init__ *)

\* Mutant: max_scale is not passed on, and the scaler is left with a bound of
\* its own far above it.
NewGradScalerNoMax(a) ==
    DynamicGradScaler(a.initial_scale, a.min_scale, a.growth_factor, a.backoff_factor,
                      a.growth_interval, a.hysteresis, 1073741824)

\* Mutant: growth_interval and hysteresis are passed in each other's place.
NewGradScalerSwapped(a) ==
    DynamicGradScaler(a.initial_scale, a.min_scale, a.growth_factor, a.backoff_factor,
                      a.hysteresis, a.growth_interval, a.max_scale)

\* The scaler __init__ builds from the optimizer's own arguments.
NewGradScaler(a) ==
    DynamicGradScaler(a.initial_scale, a.min_scale, a.growth_factor, a.backoff_factor,
                      a.growth_interval, a.hysteresis, a.max_scale)

\* Mutant: the master is the source tensor whatever its dtype (no upcast).
MasterRefNoUpcast(p, dt) == IF HasCaAttr(p) THEN "payload" ELSE "data0"

\* The tensor the master entry of p refers to: the shard payload (sharded) or
\* p.data (plain) as it is, or a fresh float32 copy when that is float16.
MasterRef(p, dt) ==
    IF dt = "half" THEN "fp32"
    ELSE IF HasCaAttr(p) THEN "payload" ELSE "data0"

\* The tensor p.data refers to before the optimizer touches it.
DataRef(p) == IF HasCaAttr(p) THEN "payload" ELSE "data0"

\* The value the parameter holds at construction.
InitValue(p) == IF HasCaAttr(p) THEN 8 ELSE 4

\* self.master_params after the loop over the groups: an entry for every
\* parameter of every group, none for any other.
MasterStore(groups, dts) ==
    [p \in Params |-> IF p \in Flatten(groups) THEN MasterRef(p, dts[p]) ELSE "none"]

\* The tensors of the parameters before the optimizer is constructed.
SourceTensors ==
    [p \in Params |-> [t \in Tensors |-> IF t = DataRef(p) THEN InitValue(p) ELSE 0]]

\* The tensors after the loop: a master that is a float32 copy holds the
\* converted value of its source.
UpcastTensors(groups, dts, ts) ==
    [p \in Params |->
        IF p \in Flatten(groups) /\ MasterRef(p, dts[p]) = "fp32"
        THEN [ts[p] EXCEPT !["fp32"] = Conv("float", ts[p][DataRef(p)])]
        ELSE ts[p]]

\* The assertion of the loop fails at a parameter with a ca_attr that is not sharded.
CaAttrUnsharded(groups) == \E p \in Flatten(groups) : HasCaAttr(p) /\ ~IsSharded(p)

\* The reference model at the start: a copy of the model's parameters (val, in
\* the parameters' own dtypes; val32, the same kept in float32), not stepped.
NewReference ==
    [val |-> [p \in Params |-> InitValue(p)], val32 |-> [p \in Params |-> InitValue(p)],
     steps |-> 0]

NoPre == [master |-> [p \in Params |-> 0], optim_steps |-> 0, updates |-> 0,
          optim_state |-> "UNSCALED", last_op |-> "init", grad |-> [p \in Params |-> NoGrad]]
NoSeen == [grad |-> [p \in Params |-> NoGrad], optim_state |-> "UNSCALED", factor |-> <<1, 1>>]
NoBw == [scale |-> 0, loss |-> 0, scaled_loss |-> 0, d |-> [p \in Params |-> NoGrad],
         unscales |-> 0]

\* The state after every process of `world` has constructed its optimizer with
\* arguments a, over the parameter groups groups[q] whose dtypes are dts[q].
Constructed(world, groups, dts, a) ==
    /\ dp_process_group = [q \in Proc |-> IF q \in world
                                          THEN {r \in world : r[2] = q[2]} ELSE {}]
    /\ mp_process_group = [q \in Proc |-> IF q \in world
                                          THEN {r \in world : r[1] = q[1]} ELSE {}]
    /\ param_groups = groups
    /\ dtype = dts
    /\ init_args = a
    /\ grad_scaler = [q \in Proc |-> NewGradScaler(a)]
    /\ optim_state = [q \in Proc |-> "UNSCALED"]
    /\ found_overflow = [q \in Proc |-> 0]
    /\ master_params = [q \in Proc |-> MasterStore(groups[q], dts[q])]
    /\ p_data = [q \in Proc |-> [p \in Params |-> DataRef(p)]]
    /\ tensor = [q \in Proc |-> UpcastTensors(groups[q], dts[q], SourceTensors)]
    /\ grad = [q \in Proc |-> [p \in Params |-> NoGrad]]
    /\ optim_steps = [q \in Proc |-> 0]
    /\ pc = [q \in Proc |-> "idle"]
    /\ ret = [q \in Proc |-> "None"]
    /\ err = [q \in Proc |-> "None"]
    /\ last_op = [q \in Proc |-> "init"]
    /\ nsteps = [q \in Proc |-> 0]
    /\ coll = [q \in Proc |-> <<>>]
    /\ rlog = [q \in Proc |-> <<>>]
    /\ pre = [q \in Proc |-> NoPre]
    /\ seen = [q \in Proc |-> NoSeen]
    /\ grad_factor = [q \in Proc |-> <<1, 1>>]
    /\ bw = [q \in Proc |-> NoBw]
    /\ reference = [q \in Proc |-> NewReference]

----------------------------------------------------------------------------
(* Collaborators: autograd, the base optimizer, the process group *)

\* _utils.has_inf_or_nan(p.grad); an absent gradient is no overflow.
HasInfOrNan(g) == g.k \in {"nan", "inf"}

\* A tensor times a scalar.
Times(s, g) == IF g.k = "fin" THEN Fin(s * g.v) ELSE g

\* model.backward(loss) / super().backward(loss): autograd leaves in p.grad the
\* derivative of the loss it is given, for the parameters of q.
Autograd(q, d) == [p \in Params |-> IF p \in ParamsOf(q) THEN d[p] ELSE grad[q][p]]

\* optim.zero_grad(): every gradient that is present is zeroed.
ZeroGrad(q) ==
    [p \in Params |-> IF p \in ParamsOf(q) /\ grad[q][p].k # "none" THEN Fin(0) ELSE grad[q][p]]

\* The norm clip_grad_norm_ computes: the largest magnitude, or -1 for a
\* non-finite norm (some gradient is nan or inf).
GradNorm(q, g) ==
    IF \E p \in ParamsOf(q) : HasInfOrNan(g[p]) THEN -1
    ELSE MaxOf({0} \cup {Abs(g[p].v) : p \in {x \in ParamsOf(q) : g[x].k = "fin"}})

\* super().clip_grad_norm(model, max_norm): gradients are multiplied by
\* max_norm / norm when the norm exceeds max_norm; under a non-finite norm the
\* coefficient is 0, which zeroes finite gradients and turns inf into nan.
ClipGrads(q, g, max_norm) ==
    LET norm == GradNorm(q, g)
    IN  [p \in Params |->
            IF p \notin ParamsOf(q) \/ g[p].k = "none" THEN g[p]
            ELSE IF norm = -1 THEN (IF g[p].k = "fin" THEN Fin(0) ELSE NaN)
            ELSE IF norm > max_norm THEN Fin((g[p].v * max_norm) \div norm)
            ELSE g[p]]

\* optim.step(): every parameter with a gradient moves by -grad (learning
\* rate 1), in place in the tensor p.data refers to.
BaseStep(q, refs, ts) ==
    [p \in Params |->
        IF p \in ParamsOf(q) /\ grad[q][p].k = "fin"
        THEN [ts[p] EXCEPT ![refs[p]] = Conv(TensorDtype(q, p, refs[p]), @ - grad[q][p].v)]
        ELSE ts[p]]

\* ca_attr.set_payload(data): data is copied into the shard payload, which
\* keeps its dtype.
SetPayload(q, p, t, x) == [t EXCEPT !["payload"] = Conv(dtype[q][p], x)]

\* dist.all_reduce(op=MAX) over `group`: the value every member ends with.
AllReduceMax(group, vals) == MaxOf({vals[r] : r \in group})

----------------------------------------------------------------------------
(* ShardedOptimizerV2: the private helpers *)

\* Mutant: step() and clip_grad_norm() unscale whatever the phase.
UnscaleAlways(q) ==
    IF optim_state[q] # "SCALED"
    THEN [raised |-> TRUE, by |-> 1, n |-> 0, grad |-> grad[q], optim_state |-> optim_state[q]]
    ELSE [raised |-> FALSE, by |-> loss_scale(q), n |-> 1,
          grad |-> [p \in Params |->
                       IF p \in ParamsOf(q) /\ grad[q][p].k = "fin"
                       THEN Fin(grad[q][p].v \div loss_scale(q)) ELSE grad[q][p]],
          optim_state |-> "UNSCALED"]

\* Mutant: the gradients are divided by the scale the optimizer started with.
UnscaleGradsInitialScale(q) ==
    IF optim_state[q] # "SCALED"
    THEN [raised |-> TRUE, by |-> 1, n |-> 0, grad |-> grad[q], optim_state |-> optim_state[q]]
    ELSE [raised |-> FALSE, by |-> init_args.initial_scale, n |-> 1,
          grad |-> [p \in Params |->
                       IF p \in ParamsOf(q) /\ grad[q][p].k = "fin"
                       THEN Fin(grad[q][p].v \div init_args.initial_scale) ELSE grad[q][p]],
          optim_state |-> "UNSCALED"]

\* Mutant: the phase is flipped but the gradients are not divided.
UnscaleGradsNoDivide(q) ==
    IF optim_state[q] # "SCALED"
    THEN [raised |-> TRUE, by |-> 1, n |-> 0, grad |-> grad[q], optim_state |-> optim_state[q]]
    ELSE [raised |-> FALSE, by |-> 1, n |-> 0, grad |-> grad[q], optim_state |-> "UNSCALED"]

\* Mutant: no assertion; the gradients are divided whatever the phase.
UnscaleGradsNoAssert(q) ==
    [raised |-> FALSE, by |-> loss_scale(q), n |-> 1,
     grad |-> [p \in Params |->
                  IF p \in ParamsOf(q) /\ grad[q][p].k = "fin"
                  THEN Fin(grad[q][p].v \div loss_scale(q)) ELSE grad[q][p]],
     optim_state |-> "UNSCALED"]

\* _unscale_grads(): [raised, by, n, grad, optim_state].  The assertion fails
\* when the gradients are not SCALED, and nothing is changed; otherwise every
\* gradient that is present is divided by the loss scale (by), in one pass (n).
UnscaleGrads(q) ==
    IF optim_state[q] # "SCALED"
    THEN [raised |-> TRUE, by |-> 1, n |-> 0, grad |-> grad[q], optim_state |-> optim_state[q]]
    ELSE [raised |-> FALSE, by |-> loss_scale(q), n |-> 1,
          grad |-> [p \in Params |->
                       IF p \in ParamsOf(q) /\ grad[q][p].k = "fin"
                       THEN Fin(grad[q][p].v \div loss_scale(q)) ELSE grad[q][p]],
          optim_state |-> "UNSCALED"]

\* `if self.optim_state == OptimState.SCALED: self._unscale_grads()`
UnscaleIfScaled(q) ==
    IF optim_state[q] = "SCALED" THEN UnscaleGrads(q)
    ELSE [raised |-> FALSE, by |-> 1, n |-> 0, grad |-> grad[q], optim_state |-> optim_state[q]]

\* Mutant: an absent gradient counts as an overflow.
RECURSIVE ScanGroupNoneOverflows(_, _)
ScanGroupNoneOverflows(ps, g) ==
    IF ps = <<>> THEN 0
    ELSE IF HasInfOrNan(g[Head(ps)]) \/ g[Head(ps)] = NoGrad THEN 1
    ELSE ScanGroupNoneOverflows(Tail(ps), g)

\* The inner loop of _check_overflow over one group: 1 at the first gradient
\* with an inf or nan (break), else 0.
RECURSIVE ScanGroup(_, _)
ScanGroup(ps, g) ==
    IF ps = <<>> THEN 0
    ELSE IF HasInfOrNan(g[Head(ps)]) THEN 1
    ELSE ScanGroup(Tail(ps), g)

\* The outer loop: the flag after the groups from `flag`.
RECURSIVE ScanGroups(_, _, _)
ScanGroups(groups, g, flag) ==
    IF groups = <<>> THEN flag
    ELSE ScanGroups(Tail(groups), g, IF ScanGroup(Head(groups), g) = 1 THEN 1 ELSE flag)

\* Mutant: the flag is not cleared before the scan.
LocalOverflowNoReset(q, g) == ScanGroups(param_groups[q], g, found_overflow[q])

\* _check_overflow up to the first collective: the flag is cleared, then set by the scan.
LocalOverflow(q, g) == ScanGroups(param_groups[q], g, 0)

----------------------------------------------------------------------------
(* ShardedOptimizerV2: the operations of process q *)

Idle(q) == q \in World /\ pc[q] = "idle"

\* A failed assertion: the exception ends the process, its state as it was.
Raise(q) ==
    /\ pc' = [pc EXCEPT ![q] = "halted"]
    /\ err' = [err EXCEPT ![q] = "AssertionError"]
    /\ UNCHANGED <<config, reference, fields, params, ret, history>>

\* `loss = self.loss_scale * loss`: the value and the derivative of the product.
ScaledLoss(q, loss) ==
    [val |-> loss_scale(q) * loss.val,
     d |-> [p \in Params |-> Times(loss_scale(q), loss.d[p])]]

\* backward(loss)
Backward(q, loss) ==
    /\ Idle(q)
    /\ optim_state' = [optim_state EXCEPT ![q] = "SCALED"]
    /\ grad' = [grad EXCEPT ![q] = Autograd(q, ScaledLoss(q, loss).d)]
    /\ last_op' = [last_op EXCEPT ![q] = "backward"]
    /\ bw' = [bw EXCEPT ![q] = [scale |-> loss_scale(q), loss |-> loss.val,
                                scaled_loss |-> ScaledLoss(q, loss).val, d |-> loss.d,
                                unscales |-> 0]]
    /\ grad_factor' = [grad_factor EXCEPT ![q] = <<loss_scale(q), 1>>]
    /\ UNCHANGED <<config, reference, grad_scaler, found_overflow, master_params, p_data, tensor,
                   optim_steps, control, nsteps, coll, rlog, pre, seen>>

\* Mutant: backward_by_grad marks the gradients SCALED, as backward does.
BackwardByGradScaled(q, t, seed) ==
    /\ Idle(q)
    /\ optim_state' = [optim_state EXCEPT ![q] = "SCALED"]
    /\ grad' = [grad EXCEPT ![q] = Autograd(q, [p \in Params |-> Times(seed.v, t.d[p])])]
    /\ last_op' = [last_op EXCEPT ![q] = "backward_by_grad"]
    /\ grad_factor' = [grad_factor EXCEPT ![q] = <<seed.f, 1>>]
    /\ UNCHANGED <<config, reference, grad_scaler, found_overflow, master_params, p_data, tensor,
                   optim_steps, control, nsteps, coll, rlog, pre, seen, bw>>

\* backward_by_grad(tensor, grad): the gradients are the derivative of the
\* tensor times the seed the caller supplies; seed.f is the loss-scale factor
\* the seed carries.
BackwardByGrad(q, t, seed) ==
    /\ Idle(q)
    /\ grad' = [grad EXCEPT ![q] = Autograd(q, [p \in Params |-> Times(seed.v, t.d[p])])]
    /\ last_op' = [last_op EXCEPT ![q] = "backward_by_grad"]
    /\ grad_factor' = [grad_factor EXCEPT ![q] = <<seed.f, 1>>]
    /\ UNCHANGED <<config, reference, fields, p_data, tensor, optim_steps, control,
                   nsteps, coll, rlog, pre, seen, bw>>

\* Mutant: clip_grad_norm delegates the clipping without unscaling first.
ClipGradNormNoUnscale(q, max_norm) ==
    /\ Idle(q)
    /\ grad' = [grad EXCEPT ![q] = ClipGrads(q, grad[q], max_norm)]
    /\ last_op' = [last_op EXCEPT ![q] = "clip_grad_norm"]
    /\ UNCHANGED <<config, reference, fields, p_data, tensor, optim_steps, control,
                   nsteps, coll, rlog, pre, seen, bw, grad_factor>>

\* clip_grad_norm(model, max_norm)
ClipGradNorm(q, max_norm) ==
    /\ Idle(q)
    /\ LET u == UnscaleIfScaled(q)
       IN  IF u.raised THEN Raise(q)
           ELSE /\ optim_state' = [optim_state EXCEPT ![q] = u.optim_state]
                /\ grad' = [grad EXCEPT ![q] = ClipGrads(q, u.grad, max_norm)]
                /\ grad_factor' = [grad_factor EXCEPT ![q] = <<@[1], @[2] * u.by>>]
                /\ last_op' = [last_op EXCEPT ![q] = "clip_grad_norm"]
                /\ bw' = [bw EXCEPT ![q].unscales = @ + u.n]
                /\ UNCHANGED <<config, reference, grad_scaler, found_overflow, master_params, p_data,
                               tensor, optim_steps, control, nsteps, coll, rlog, pre, seen>>

\* _unscale_grads() called on its own.
UnscaleGradsCall(q) ==
    /\ Idle(q)
    /\ LET u == UnscaleGrads(q)
       IN  IF u.raised THEN Raise(q)
           ELSE /\ optim_state' = [optim_state EXCEPT ![q] = u.optim_state]
                /\ grad' = [grad EXCEPT ![q] = u.grad]
                /\ grad_factor' = [grad_factor EXCEPT ![q] = <<@[1], @[2] * u.by>>]
                /\ last_op' = [last_op EXCEPT ![q] = "_unscale_grads"]
                /\ bw' = [bw EXCEPT ![q].unscales = @ + u.n]
                /\ UNCHANGED <<config, reference, grad_scaler, found_overflow, master_params, p_data,
                               tensor, optim_steps, control, nsteps, coll, rlog, pre, seen>>

\* Mutant: a process whose own scan found an overflow returns from
\* _check_overflow at once, without the collectives.
AfterScanShortCircuit(q, flag) == IF flag = 1 THEN "checked" ELSE "dp"

\* Where _check_overflow goes after the scan: to the all-reduce over the
\* data-parallel group, whatever the flag.
AfterScan(q, flag) == "dp"

\* step(), from the call to the first collective of _check_overflow: the
\* gradients are unscaled if SCALED, the flag is cleared and set by the scan.
StepBegin(q) ==
    /\ Idle(q)
    /\ nsteps[q] < MaxRounds
    /\ LET u == UnscaleIfScaled(q)
       IN  IF u.raised THEN Raise(q)
           ELSE /\ optim_state' = [optim_state EXCEPT ![q] = u.optim_state]
                /\ grad' = [grad EXCEPT ![q] = u.grad]
                /\ grad_factor' = [grad_factor EXCEPT ![q] = <<@[1], @[2] * u.by>>]
                /\ found_overflow' = [found_overflow EXCEPT ![q] = LocalOverflow(q, u.grad)]
                /\ pc' = [pc EXCEPT ![q] = AfterScan(q, LocalOverflow(q, u.grad))]
                /\ nsteps' = [nsteps EXCEPT ![q] = @ + 1]
                /\ coll' = [coll EXCEPT ![q] = <<>>]
                /\ pre' = [pre EXCEPT ![q] =
                              [master |-> [p \in Params |-> IF p \in ParamsOf(q)
                                                             THEN Master(q, p) ELSE 0],
                               optim_steps |-> optim_steps[q],
                               updates |-> Len(grad_scaler[q].log),
                               optim_state |-> optim_state[q],
                               last_op |-> last_op[q],
                               grad |-> grad[q]]]
                /\ rlog' = [rlog EXCEPT ![q] = Append(@,
                              [held |-> \E p \in ParamsOf(q) : grad[q][p].k \in {"nan", "inf"},
                               done |-> FALSE, found |-> FALSE, branch |-> "none"])]
                /\ bw' = [bw EXCEPT ![q].unscales = @ + u.n]
                /\ UNCHANGED <<config, reference, grad_scaler, master_params, p_data, tensor,
                               optim_steps, ret, err, last_op, seen>>

\* Mutant: the reduction over the data-parallel group is left out.
ReducedDpLocal(q) == found_overflow[q]

\* The value the all-reduce over the data-parallel group leaves in q's flag.
ReducedDp(q) == AllReduceMax(dp_process_group[q], found_overflow)

\* Mutant: the reduction over the model-parallel group is left out.
ReducedMpLocal(q) == found_overflow[q]

\* The value the all-reduce over the model-parallel group leaves in q's flag.
ReducedMp(q) == AllReduceMax(mp_process_group[q], found_overflow)

\* dist.all_reduce(..., group=self.dp_process_group): the collective completes
\* once every process of q's data-parallel group has entered it.
AllReduceDp(q) ==
    /\ q \in World
    /\ \A r \in dp_process_group[q] : pc[r] = "dp"
    /\ found_overflow' = [r \in Proc |-> IF r \in dp_process_group[q]
                                         THEN ReducedDp(r) ELSE found_overflow[r]]
    /\ pc' = [r \in Proc |-> IF r \in dp_process_group[q] THEN "mp" ELSE pc[r]]
    /\ coll' = [r \in Proc |-> IF r \in dp_process_group[q]
                               THEN Append(coll[r], "dp") ELSE coll[r]]
    /\ UNCHANGED <<config, reference, grad_scaler, optim_state, master_params, params, ret, err,
                   last_op, nsteps, rlog, pre, seen, bw, grad_factor>>

\* dist.all_reduce(..., group=self.mp_process_group)
AllReduceMp(q) ==
    /\ q \in World
    /\ \A r \in mp_process_group[q] : pc[r] = "mp"
    /\ found_overflow' = [r \in Proc |-> IF r \in mp_process_group[q]
                                         THEN ReducedMp(r) ELSE found_overflow[r]]
    /\ pc' = [r \in Proc |-> IF r \in mp_process_group[q] THEN "checked" ELSE pc[r]]
    /\ coll' = [r \in Proc |-> IF r \in mp_process_group[q]
                               THEN Append(coll[r], "mp") ELSE coll[r]]
    /\ UNCHANGED <<config, reference, grad_scaler, optim_state, master_params, params, ret, err,
                   last_op, nsteps, rlog, pre, seen, bw, grad_factor>>

\* `return self._found_overflow.item() > 0`
FoundInf(q) == found_overflow[q] > 0

\* The entry of the current step() call completed with the branch taken.
Finished(q, branch) ==
    [rlog EXCEPT ![q][Len(rlog[q])] =
        [@ EXCEPT !.done = TRUE, !.found = FoundInf(q), !.branch = branch]]

\* Mutant: the overflow branch returns without clearing the gradients.
StepSkipKeepGrads(q) ==
    /\ rlog' = Finished(q, "skip")
    /\ ret' = [ret EXCEPT ![q] = "None"]
    /\ last_op' = [last_op EXCEPT ![q] = "step_skip"]
    /\ UNCHANGED <<grad, grad_factor, p_data, tensor, optim_steps, seen>>

\* The overflow branch of step(): the gradients are cleared, nothing is returned.
StepSkip(q) ==
    /\ rlog' = Finished(q, "skip")
    /\ grad' = [grad EXCEPT ![q] = ZeroGrad(q)]
    /\ grad_factor' = [grad_factor EXCEPT ![q] = <<1, 1>>]
    /\ ret' = [ret EXCEPT ![q] = "None"]
    /\ last_op' = [last_op EXCEPT ![q] = "step_skip"]
    /\ UNCHANGED <<p_data, tensor, optim_steps, seen>>

\* Mutant: the master is not written into p.data before the base step.
MasterNotToData(q) == p_data[q]

\* p.data after `p.data = self.master_params[p]` for every parameter.
MasterToData(q) ==
    [p \in Params |-> IF p \in ParamsOf(q) THEN master_params[q][p] ELSE p_data[q][p]]

\* Mutant: the stepped master is not pushed back into the shard payload.
SteppedTensorsNoPayload(q) == BaseStep(q, MasterToData(q), tensor[q])

\* The tensors after optim.step() and, for a sharded parameter, set_payload(p.data).
SteppedTensors(q) ==
    LET stepped == BaseStep(q, MasterToData(q), tensor[q])
    IN  [p \in Params |->
            IF p \in ParamsOf(q) /\ HasCaAttr(p)
            THEN SetPayload(q, p, stepped[p], stepped[p][MasterToData(q)[p]])
            ELSE stepped[p]]

\* p.data after `p.data = p.ca_attr.payload()` for every sharded parameter.
PayloadToData(q) ==
    [p \in Params |-> IF p \in ParamsOf(q) /\ HasCaAttr(p) THEN "payload" ELSE MasterToData(q)[p]]

\* The applied branch of step(): master into p.data, the base optimizer's
\* step, the payload written back; the base optimizer's result is returned.
StepApply(q) ==
    /\ rlog' = Finished(q, "apply")
    /\ seen' = [seen EXCEPT ![q] = [grad |-> grad[q], optim_state |-> optim_state[q],
                                    factor |-> grad_factor[q]]]
    /\ tensor' = [tensor EXCEPT ![q] = SteppedTensors(q)]
    /\ p_data' = [p_data EXCEPT ![q] = PayloadToData(q)]
    /\ optim_steps' = [optim_steps EXCEPT ![q] = @ + 1]
    /\ ret' = [ret EXCEPT ![q] = "base"]
    /\ last_op' = [last_op EXCEPT ![q] = "step_apply"]
    /\ UNCHANGED <<grad, grad_factor>>

\* Mutant: the scaler is updated on the overflow branch only.
ScalerAfterOverflowOnly(q) ==
    IF FoundInf(q) THEN ScalerUpdate(grad_scaler[q], TRUE) ELSE grad_scaler[q]

\* `found_inf = self._check_overflow(); self.grad_scaler.update(found_inf)`
ScalerAfterCheck(q) == ScalerUpdate(grad_scaler[q], FoundInf(q))

\* step(), from the return of _check_overflow to its own return.
StepFinish(q) ==
    /\ q \in World
    /\ pc[q] = "checked"
    /\ grad_scaler' = [grad_scaler EXCEPT ![q] = ScalerAfterCheck(q)]
    /\ IF FoundInf(q) THEN StepSkip(q) ELSE StepApply(q)
    /\ pc' = [pc EXCEPT ![q] = "idle"]
    /\ UNCHANGED <<config, reference, optim_state, found_overflow, master_params, err,
                   nsteps, coll, pre, bw>>

----------------------------------------------------------------------------
(* Inputs *)

GradOf(w, s) == [p \in Params |-> IF p = "w" THEN w ELSE s]

\* The losses (value and derivative) a process may be handed: over both
\* parameters for a process that holds the sharded parameter, over "w" alone
\* for one that does not.
Losses(q) ==
    IF "s" \in ParamsOf(q)
    THEN {[val |-> 2, d |-> GradOf(Fin(1), Fin(1))],
          [val |-> 1, d |-> GradOf(Fin(3), NoGrad)],
          [val |-> 1, d |-> GradOf(NaN, Fin(1))],
          [val |-> 1, d |-> GradOf(Fin(1), Inf)]}
    ELSE {[val |-> 1, d |-> GradOf(Fin(1), NoGrad)],
          [val |-> 1, d |-> GradOf(NaN, NoGrad)]}

\* The tensors backward_by_grad is called on.
Outputs(q) == {l \in Losses(q) : l.val = 1 /\ \A p \in Params : ~HasInfOrNan(l.d[p])}

\* The gradient seeds a caller supplies: one computed downstream from the
\* scaled loss, which carries the loss scale, and one that carries none.
Seeds(q) == {[v |-> loss_scale(q), f |-> loss_scale(q)], [v |-> 1, f |-> 1]}

MaxNorms == {2}

\* The scaler arguments of the optimizer.
ScalerArgs ==
    [initial_scale |-> 8, min_scale |-> 4, max_scale |-> 16, growth_factor |-> 2,
     backoff_factor |-> <<1, 2>>, growth_interval |-> 1, hysteresis |-> 1]

----------------------------------------------------------------------------
(* Spec: one process, a world of its own, over a plain float32 parameter    *)
(* and a sharded float16 parameter in two groups.                          *)

Main == <<0, 0>>

Init ==
    Constructed({Main},
                [q \in Proc |-> IF q = Main THEN << <<"w">>, <<"s">> >> ELSE <<>>],
                [q \in Proc |-> [p \in Params |-> IF p = "w" THEN "float" ELSE "half"]],
                ScalerArgs)

Next ==
    \E q \in Proc :
        \/ \E loss \in Losses(q) : Backward(q, loss)
        \/ \E t \in Outputs(q), seed \in Seeds(q) : BackwardByGrad(q, t, seed)
        \/ \E m \in MaxNorms : ClipGradNorm(q, m)
        \/ UnscaleGradsCall(q)
        \/ StepBegin(q)
        \/ AllReduceDp(q)
        \/ AllReduceMp(q)
        \/ StepFinish(q)

Spec == Init /\ [][Next]_vars

----------------------------------------------------------------------------
(* SpecGrid: the 2 x 2 grid, every process over one plain float16          *)
(* parameter, each calling step() as it likes.  The processes on the       *)
(* diagonal also call backward(), with a finite or a nan gradient; the     *)
(* other two never hold a gradient.                                        *)

Talkers == {q \in Proc : q[1] = q[2]}
GridLosses(q) == IF q \in Talkers THEN Losses(q) ELSE {}

InitGrid ==
    Constructed(Proc,
                [q \in Proc |-> << <<"w">> >>],
                [q \in Proc |-> [p \in Params |-> "half"]],
                ScalerArgs)

NextGrid ==
    \E q \in Proc :
        \/ \E loss \in GridLosses(q) : Backward(q, loss)
        \/ StepBegin(q)
        \/ AllReduceDp(q)
        \/ AllReduceMp(q)
        \/ StepFinish(q)

SpecGrid == InitGrid /\ [][NextGrid]_vars

\* A step of some process's step() call: the call itself, a collective, the return.
StepProgress ==
    \E q \in Proc : StepBegin(q) \/ AllReduceDp(q) \/ AllReduceMp(q) \/ StepFinish(q)

\* While some process has a step() call to make (each makes MaxRounds), a
\* collective to complete or a step() to return from, one of them does.
FairGrid == SpecGrid /\ WF_vars(StepProgress)

----------------------------------------------------------------------------
(* SpecPublic: the optimizer driven through its public operations only.    *)

NextPublic ==
    \E q \in Proc :
        \/ \E loss \in Losses(q) : Backward(q, loss)
        \/ \E t \in Outputs(q), seed \in Seeds(q) : BackwardByGrad(q, t, seed)
        \/ \E m \in MaxNorms : ClipGradNorm(q, m)
        \/ StepBegin(q)
        \/ AllReduceDp(q)
        \/ AllReduceMp(q)
        \/ StepFinish(q)

SpecPublic == Init /\ [][NextPublic]_vars

----------------------------------------------------------------------------
(* SpecData: the optimizer over a plain and a sharded float16 parameter,   *)
(* with a forward/backward pass that also writes its working parameters in *)
(* place.                                                                  *)

\* The forward/backward pass writes x in place into p.data of q's parameter p.
WriteData(q, p, x) ==
    /\ Idle(q)
    /\ p \in ParamsOf(q)
    /\ Data(q, p) # x
    /\ tensor' = [tensor EXCEPT ![q][p][p_data[q][p]] =
                     Conv(TensorDtype(q, p, p_data[q][p]), x)]
    /\ last_op' = [last_op EXCEPT ![q] = "write_data"]
    /\ UNCHANGED <<config, reference, fields, p_data, grad, optim_steps, control,
                   nsteps, coll, rlog, pre, seen, bw, grad_factor>>

\* The values written.
Written == {0}

\* The loss of SpecData: finite over both parameters.
DataLosses(q) == {l \in Losses(q) : l.val = 2}

InitData ==
    Constructed({Main},
                [q \in Proc |-> IF q = Main THEN << <<"w">>, <<"s">> >> ELSE <<>>],
                [q \in Proc |-> [p \in Params |-> "half"]],
                ScalerArgs)

NextData ==
    \E q \in Proc :
        \/ \E loss \in DataLosses(q) : Backward(q, loss)
        \/ \E t \in Outputs(q), seed \in Seeds(q) : BackwardByGrad(q, t, seed)
        \/ \E m \in MaxNorms : ClipGradNorm(q, m)
        \/ \E p \in Params, x \in Written : WriteData(q, p, x)
        \/ StepBegin(q)
        \/ AllReduceDp(q)
        \/ AllReduceMp(q)
        \/ StepFinish(q)

SpecData == InitData /\ [][NextData]_vars

----------------------------------------------------------------------------
(* SpecRef: the comparison of the tests.  A model driven through the       *)
(* optimizer and a reference copy of it driven by the base optimizer alone *)
(* run the same backward/step iterations, none of which overflows.         *)

\* optim.step() on the reference model: every parameter with a gradient moves
\* by minus the gradient of the loss itself, in the parameter's dtype (val)
\* and in float32 (val32).
ReferenceStep(q) ==
    /\ Idle(q)
    /\ reference[q].steps < optim_steps[q]
    /\ reference' = [reference EXCEPT ![q] =
          [val |-> [p \in Params |->
                      IF p \in ParamsOf(q) /\ bw[q].d[p].k = "fin"
                      THEN Conv(dtype[q][p], reference[q].val[p] - bw[q].d[p].v)
                      ELSE reference[q].val[p]],
           val32 |-> [p \in Params |->
                      IF p \in ParamsOf(q) /\ bw[q].d[p].k = "fin"
                      THEN reference[q].val32[p] - bw[q].d[p].v
                      ELSE reference[q].val32[p]],
           steps |-> reference[q].steps + 1]]
    /\ UNCHANGED <<config, fields, params, control, history>>

\* The two models are at the same iteration.
InStep(q) == pc[q] = "idle" /\ reference[q].steps = optim_steps[q]

\* The losses of the iterations: the finite ones.
RefLosses(q) == {l \in Losses(q) : \A p \in Params : ~HasInfOrNan(l.d[p])}

\* One iteration is backward(loss), then step().
IterBackward(q, loss) == InStep(q) /\ last_op[q] # "backward" /\ Backward(q, loss)
IterStep(q) == last_op[q] = "backward" /\ StepBegin(q)

InitRef ==
    \E dw \in {"half", "float"}, ds \in {"half", "float"} :
        Constructed({Main},
                    [q \in Proc |-> IF q = Main THEN << <<"w">>, <<"s">> >> ELSE <<>>],
                    [q \in Proc |-> [p \in Params |-> IF p = "w" THEN dw ELSE ds]],
                    ScalerArgs)

NextRef ==
    \E q \in Proc :
        \/ \E loss \in RefLosses(q) : IterBackward(q, loss)
        \/ IterStep(q)
        \/ AllReduceDp(q)
        \/ AllReduceMp(q)
        \/ StepFinish(q)
        \/ ReferenceStep(q)

SpecRef == InitRef /\ [][NextRef]_vars

----------------------------------------------------------------------------
(* SpecCtor: the construction itself, over any of the parameter groups and *)
(* dtypes below.                                                           *)

NoScaler == DynamicGradScaler(0, 0, 0, <<0, 1>>, 0, 0, 0)

\* The parameters exist, with the groups of the base optimizer over them; no
\* process of `world` has constructed its ShardedOptimizerV2 yet.
Unconstructed(world, groups, dts, a) ==
    /\ dp_process_group = [q \in Proc |-> IF q \in world
                                          THEN {r \in world : r[2] = q[2]} ELSE {}]
    /\ mp_process_group = [q \in Proc |-> IF q \in world
                                          THEN {r \in world : r[1] = q[1]} ELSE {}]
    /\ param_groups = groups
    /\ dtype = dts
    /\ init_args = a
    /\ grad_scaler = [q \in Proc |-> NoScaler]
    /\ optim_state = [q \in Proc |-> "none"]
    /\ found_overflow = [q \in Proc |-> 0]
    /\ master_params = [q \in Proc |-> [p \in Params |-> "none"]]
    /\ p_data = [q \in Proc |-> [p \in Params |-> DataRef(p)]]
    /\ tensor = [q \in Proc |-> SourceTensors]
    /\ grad = [q \in Proc |-> [p \in Params |-> NoGrad]]
    /\ optim_steps = [q \in Proc |-> 0]
    /\ pc = [q \in Proc |-> IF q \in world THEN "new" ELSE "idle"]
    /\ ret = [q \in Proc |-> "None"]
    /\ err = [q \in Proc |-> "None"]
    /\ last_op = [q \in Proc |-> "none"]
    /\ nsteps = [q \in Proc |-> 0]
    /\ coll = [q \in Proc |-> <<>>]
    /\ rlog = [q \in Proc |-> <<>>]
    /\ pre = [q \in Proc |-> NoPre]
    /\ seen = [q \in Proc |-> NoSeen]
    /\ grad_factor = [q \in Proc |-> <<1, 1>>]
    /\ bw = [q \in Proc |-> NoBw]
    /\ reference = [q \in Proc |-> NewReference]

\* ShardedOptimizerV2(adam_optim, ...): the fields, then the loop that fills
\* the master store, in which the assertion on is_sharded may fail.
Construct(q) ==
    /\ q \in World
    /\ pc[q] = "new"
    /\ IF CaAttrUnsharded(param_groups[q]) THEN Raise(q)
       ELSE /\ grad_scaler' = [grad_scaler EXCEPT ![q] = NewGradScaler(init_args)]
            /\ optim_state' = [optim_state EXCEPT ![q] = "UNSCALED"]
            /\ found_overflow' = [found_overflow EXCEPT ![q] = 0]
            /\ master_params' = [master_params EXCEPT ![q] = MasterStore(param_groups[q], dtype[q])]
            /\ tensor' = [tensor EXCEPT ![q] = UpcastTensors(param_groups[q], dtype[q], @)]
            /\ pc' = [pc EXCEPT ![q] = "idle"]
            /\ last_op' = [last_op EXCEPT ![q] = "init"]
            /\ UNCHANGED <<config, reference, p_data, grad, optim_steps, ret, err,
                           nsteps, coll, rlog, pre, seen, bw, grad_factor>>

\* The groups of the base optimizer the constructor is given.
CtorGroups ==
    { <<>>, << <<"w">> >>, << <<"s">> >>, << <<"w">>, <<"s">> >>, << <<"s", "w">> >>,
      << <<"u">> >>, << <<"w">>, <<"u">> >>, << <<"s", "u">> >>, << <<"s">>, <<"w", "u">> >> }

\* The dtypes of the parameters: two floating-point ones and an integer one.
Dtypes == {"half", "float", "int"}

InitCtor ==
    \E g \in CtorGroups, dts \in [Params -> Dtypes] :
        Unconstructed({Main}, [q \in Proc |-> IF q = Main THEN g ELSE <<>>],
                      [q \in Proc |-> dts], ScalerArgs)

NextCtor == \E q \in Proc : Construct(q)

SpecCtor == InitCtor /\ [][NextCtor]_vars

----------------------------------------------------------------------------
(* SpecScaler: the scaler alone, constructed by one optimizer from any of  *)
(* the argument sets below and driven by update(true) / update(false).     *)

\* update() calls.
MaxUpdates == 4

\* max_scale stays within TLC's integers; the default 2**32 does not.
ScalerArgsSet ==
    {[initial_scale |-> i, min_scale |-> lo, max_scale |-> hi, growth_factor |-> 2,
      backoff_factor |-> <<1, 2>>, growth_interval |-> gi, hysteresis |-> h] :
        i \in {8, 1024}, lo \in {1, 4}, hi \in {16, 4096}, gi \in {1, 2}, h \in {1, 2}}

InitScaler ==
    \E a \in {x \in ScalerArgsSet : x.min_scale <= x.initial_scale /\ x.initial_scale <= x.max_scale} :
        Constructed({Main}, [q \in Proc |-> <<>>], [q \in Proc |-> [p \in Params |-> "half"]], a)

\* grad_scaler.update(found_inf) called on its own.
Update(q, found_inf) ==
    /\ Idle(q)
    /\ Len(grad_scaler[q].log) < MaxUpdates
    /\ grad_scaler' = [grad_scaler EXCEPT ![q] = ScalerUpdate(@, found_inf)]
    /\ UNCHANGED <<config, reference, optim_state, found_overflow, master_params, params, control, history>>

NextScaler == \E q \in Proc, found_inf \in BOOLEAN : Update(q, found_inf)

SpecScaler == InitScaler /\ [][NextScaler]_vars

----------------------------------------------------------------------------
(* Properties *)

\* The entry of q's k-th step() call, once q has begun it.
Began(q, k) == k <= Len(rlog[q])
Returned(q, k) == Began(q, k) /\ rlog[q][k].done

\* C1: overflow consensus.  In every round k, a process that has finished its
\* k-th step() while some process held a non-finite gradient in its k-th
\* step() found overflow and took the skip branch, and any two processes that
\* have finished their k-th step() obtained the same boolean.
C1_OverflowConsensus ==
    \A k \in 1..MaxRounds : \A q \in World : \A r \in World :
        /\ (Returned(q, k) /\ Began(r, k) /\ rlog[r][k].held)
              => (rlog[q][k].found /\ rlog[q][k].branch = "skip")
        /\ (Returned(q, k) /\ Returned(r, k)) => rlog[q][k].found = rlog[r][k].found

\* A round in which <<0, 0>> held a nan, and <<1, 1>>, whose gradient was
\* finite, has skipped its step.
C1_Witness ==
    /\ Returned(<<1, 1>>, 1)
    /\ rlog[<<0, 0>>][1].held
    /\ ~rlog[<<1, 1>>][1].held
    /\ pre[<<1, 1>>].grad["w"].k = "fin"
    /\ rlog[<<1, 1>>][1].branch = "skip"
    /\ nsteps[<<1, 1>>] = 1

\* The collectives a process at pc has performed in its current step() call.
CollectivesAt(at) ==
    IF at = "dp" THEN <<>> ELSE IF at = "mp" THEN <<"dp">> ELSE <<"dp", "mp">>

\* What q's history of step() calls must be: one overflow check per call,
\* each of exactly the two reductions, data-parallel first.
C2_OneCheckPerStep(q) ==
    /\ Len(rlog[q]) = nsteps[q]
    /\ pc[q] = "idle" => /\ \A k \in 1..Len(rlog[q]) : rlog[q][k].done
                         /\ coll[q] = IF nsteps[q] = 0 THEN <<>> ELSE <<"dp", "mp">>
    /\ pc[q] \in {"dp", "mp", "checked"} => coll[q] = CollectivesAt(pc[q])

\* C2: no deadlock at the rendezvous.  Every step() call performs one overflow
\* check of exactly two reductions, data-parallel then model-parallel,
\* whatever the phase, the gradients and the earlier outcomes; and when every
\* process goes on calling step(), every step() call returns.
C2_NoDeadlock ==
    /\ [](\A q \in World : C2_OneCheckPerStep(q))
    /\ (\E q \in Proc : pc[q] # "idle") ~> (\A q \in Proc : pc[q] = "idle")

\* Every process has returned from all its step() calls, one of which was
\* entered SCALED by one process and UNSCALED by another, after a first round
\* that overflowed.
C2_Witness ==
    /\ \A q \in World : pc[q] = "idle" /\ nsteps[q] = MaxRounds /\ Returned(q, MaxRounds)
    /\ \E q \in World, r \in World :
          pre[q].optim_state = "SCALED" /\ pre[r].optim_state = "UNSCALED"
    /\ rlog[<<0, 0>>][1].found

\* q has just returned from a step() call that took `branch`.
JustStepped(q, branch) == pc[q] = "idle" /\ last_op[q] = branch

Cleared(g) == g = NoGrad \/ g = Fin(0)

\* C3: a skipped step is void.  After step() has found overflow the base
\* optimizer has not stepped, every master parameter and the base optimizer's
\* state are what they were when step() was called, every gradient is cleared
\* and step() has returned nothing.
C3_SkippedStepVoid ==
    \A q \in World :
        JustStepped(q, "step_skip") =>
            /\ optim_steps[q] = pre[q].optim_steps
            /\ \A p \in ParamsOf(q) : Master(q, p) = pre[q].master[p]
            /\ \A p \in ParamsOf(q) : Cleared(grad[q][p])
            /\ ret[q] = "None"

\* A step skipped over a nan, after an applied step that had moved the masters
\* and returned the base optimizer's result.
C3_Witness ==
    \E q \in World :
        /\ JustStepped(q, "step_skip")
        /\ nsteps[q] = 2
        /\ rlog[q][1].branch = "apply"
        /\ pre[q].optim_steps = 1
        /\ pre[q].grad["w"] = NaN
        /\ grad[q]["s"] = Fin(0)
        /\ Master(q, "s") # InitValue("s")

\* C4: net unscaled gradient.  After backward(loss) at scale s followed by an
\* applied step(), the loss was multiplied by s, the gradients were divided by
\* that s once, and the base optimizer read the gradients of the loss itself.
C4_NetUnscaledGradient ==
    \A q \in World :
        (JustStepped(q, "step_apply") /\ pre[q].last_op = "backward") =>
            /\ bw[q].scaled_loss = bw[q].scale * bw[q].loss
            /\ seen[q].factor = <<bw[q].scale, bw[q].scale>>
            /\ \A p \in ParamsOf(q) : seen[q].grad[p] = bw[q].d[p]

\* backward(loss = 2) at scale 8, an effective loss of 16, then an applied step.
C4_Witness ==
    \E q \in World :
        /\ JustStepped(q, "step_apply")
        /\ pre[q].last_op = "backward"
        /\ bw[q].loss = 2 /\ bw[q].scale = 8 /\ bw[q].scaled_loss = 16
        /\ pre[q].grad["w"] = Fin(8)
        /\ seen[q].grad["w"] = Fin(1)

\* C5: the phase invariant.  The phase starts UNSCALED, backward() leaves it
\* SCALED, a successful unscale leaves it UNSCALED, and whenever step() has
\* invoked the base optimizer's step the phase was UNSCALED and the gradients
\* it read carried no loss-scale factor.
C5_PhaseInvariant ==
    \A q \in World :
        /\ (last_op[q] = "init" /\ nsteps[q] = 0) => optim_state[q] = "UNSCALED"
        /\ (pc[q] = "idle" /\ last_op[q] = "backward") => optim_state[q] = "SCALED"
        /\ (last_op[q] \in {"_unscale_grads", "clip_grad_norm"} \/ pc[q] \in {"dp", "mp", "checked"})
              => optim_state[q] = "UNSCALED"
        /\ JustStepped(q, "step_apply")
              => seen[q].optim_state = "UNSCALED" /\ seen[q].factor[1] = seen[q].factor[2]

\* The value the base optimizer's update leaves in the master of p.
BaseResult(q, p) ==
    IF seen[q].grad[p].k = "fin" THEN pre[q].master[p] - seen[q].grad[p].v ELSE pre[q].master[p]

\* C6 as stated: after an applied step the master of every parameter, sharded
\* or not, equals p.data, and both hold the base optimizer's result.
C6_RoundTrip ==
    \A q \in World :
        JustStepped(q, "step_apply") =>
            \A p \in ParamsOf(q) :
                Master(q, p) = Data(q, p) /\ Master(q, p) = BaseResult(q, p)

\* C6 as amended: after an applied step the master of every parameter holds
\* the base optimizer's result; p.data of a plain parameter is the master
\* tensor itself, and p.data of a sharded parameter is the shard payload,
\* which holds the master's value converted to the payload's dtype.
C6_RoundTripToPayload ==
    \A q \in World :
        JustStepped(q, "step_apply") =>
            \A p \in ParamsOf(q) :
                /\ Master(q, p) = BaseResult(q, p)
                /\ ~HasCaAttr(p) => p_data[q][p] = master_params[q][p] /\ Data(q, p) = Master(q, p)
                /\ HasCaAttr(p) => /\ p_data[q][p] = "payload"
                                   /\ Data(q, p) = (IF dtype[q][p] = "half" THEN Half(Master(q, p))
                                                    ELSE Master(q, p))

\* An applied step after which the float16 payload of the sharded parameter
\* has rounded the master's value.
C6_Witness ==
    \E q \in World :
        /\ JustStepped(q, "step_apply")
        /\ seen[q].grad["s"] = Fin(1) /\ seen[q].grad["w"] = Fin(1)
        /\ Master(q, "s") = 7 /\ Data(q, "s") = 6
        /\ Master(q, "w") = 3 /\ Data(q, "w") = 3

InBounds(x) == init_args.min_scale <= x /\ x <= init_args.max_scale

\* C7: the loss scale stays within [min_scale, max_scale]: now, and after
\* every update so far.
C7_ScaleBounds ==
    \A q \in World :
        /\ InBounds(loss_scale(q))
        /\ \A i \in 1..Len(grad_scaler[q].log) : InBounds(grad_scaler[q].log[i].scale)

\* Two overflowing steps: the scale was backed off to min_scale by the first
\* and held there by the second.
C7_Witness ==
    \E q \in World :
        /\ Len(grad_scaler[q].log) = 2
        /\ grad_scaler[q].log[1].found_inf /\ grad_scaler[q].log[2].found_inf
        /\ grad_scaler[q].log[1].scale = init_args.min_scale
        /\ loss_scale(q) = init_args.min_scale
        /\ init_args.initial_scale > init_args.min_scale

\* C8: the scaler (scale and counters) changes only when step() returns, and
\* each return of step(), skipped or applied, is exactly one update: no
\* backward(), backward_by_grad() or clip_grad_norm() changes it.
C8_ScaleOnlyByStep ==
    [][\A q \in Proc :
          /\ grad_scaler'[q] # grad_scaler[q] => (pc[q] = "checked" /\ pc'[q] = "idle")
          /\ (pc[q] = "checked" /\ pc'[q] = "idle")
                => Len(grad_scaler'[q].log) = Len(grad_scaler[q].log) + 1]_vars

\* A skipped step, an applied step, then backward_by_grad().
C8_Witness ==
    \E q \in World :
        /\ pc[q] = "idle" /\ last_op[q] = "backward_by_grad"
        /\ Len(grad_scaler[q].log) = 2
        /\ grad_scaler[q].log[1].found_inf /\ ~grad_scaler[q].log[2].found_inf
        /\ rlog[q][1].branch = "skip" /\ rlog[q][2].branch = "apply"

\* The scale before the i-th update of q's scaler.
ScaleBefore(q, i) ==
    IF i = 1 THEN init_args.initial_scale ELSE grad_scaler[q].log[i - 1].scale

\* The last n updates of q's scaler were all update(false).
LastClean(q, n) ==
    LET log == grad_scaler[q].log
    IN  /\ n <= Len(log)
        /\ \A i \in (Len(log) - n + 1)..Len(log) : ~log[i].found_inf

\* The calls of q's scaler so far, as their found_inf arguments.
Calls(q) == [i \in 1..Len(grad_scaler[q].log) |-> grad_scaler[q].log[i].found_inf]

\* The three parts of the trajectory: growth over growth_interval clean
\* updates, backoff at the update(true) that follows them, and the scenario.
C9_Trajectory(q) ==
    LET log == grad_scaler[q].log
        n == Len(log)
        gi == init_args.growth_interval
        b == init_args.backoff_factor
    IN  /\ LastClean(q, gi) =>
              LET before == ScaleBefore(q, n - gi + 1)
              IN  /\ loss_scale(q) = Min(before * init_args.growth_factor, init_args.max_scale)
                  /\ before < init_args.max_scale => loss_scale(q) > before
        /\ (n > gi /\ log[n].found_inf /\ \A i \in (n - gi)..(n - 1) : ~log[i].found_inf) =>
              loss_scale(q) = Max((ScaleBefore(q, n) * b[1]) \div b[2], init_args.min_scale)
        /\ (init_args.initial_scale = 1024 /\ gi = 2 /\ init_args.growth_factor = 2 /\ b = <<1, 2>>) =>
              /\ Calls(q) = <<FALSE, FALSE>> => loss_scale(q) = 2048
              /\ Calls(q) = <<FALSE, FALSE, TRUE>> => loss_scale(q) = 1024

C10_DoubleUnscaleFails ==
    [][\A q \in World :
          (UnscaleGradsCall(q) /\ optim_state[q] = "UNSCALED") =>
              /\ err'[q] = "AssertionError"
              /\ pc'[q] = "halted"
              /\ grad' = grad
              /\ optim_state' = optim_state]_vars

\* A second unscale, with no backward() since the first, has raised on
\* gradients that are still what the first left.
C10_Witness ==
    \E q \in World :
        /\ err[q] = "AssertionError" /\ pc[q] = "halted"
        /\ last_op[q] = "_unscale_grads"
        /\ optim_state[q] = "UNSCALED"
        /\ grad_factor[q] = <<8, 8>>
        /\ grad[q]["w"] = Fin(3)

\* The gradients of q, each present one divided by the loss scale.
DividedByScale(q) ==
    [p \in Params |-> IF p \in ParamsOf(q) /\ grad[q][p].k = "fin"
                      THEN Fin(grad[q][p].v \div loss_scale(q)) ELSE grad[q][p]]

\* The step from s to t is a clip_grad_norm() call of q / the entry of q into step().
ClipCalled(q) ==
    /\ pc[q] = "idle" /\ pc'[q] = "idle"
    /\ last_op'[q] = "clip_grad_norm"
    /\ (last_op[q] # "clip_grad_norm" \/ grad'[q] # grad[q])
StepCalled(q) == pc[q] = "idle" /\ pc'[q] = "dp"

\* C11: clip_grad_norm() stands on its own.  Called in phase SCALED it divides
\* the gradients by the current scale, the phase becomes UNSCALED, and the
\* clipping is delegated on the divided gradients; called in phase UNSCALED it
\* only delegates the clipping; it never raises.  A step() that follows
\* clip_grad_norm() with no backward() in between divides nothing.
C11_ClipUnscalesOnce ==
    [][\A q \in World :
          /\ (ClipCalled(q) /\ optim_state[q] = "SCALED") =>
                /\ optim_state'[q] = "UNSCALED"
                /\ grad_factor'[q] = <<grad_factor[q][1], grad_factor[q][2] * loss_scale(q)>>
                /\ \E m \in MaxNorms : grad'[q] = ClipGrads(q, DividedByScale(q), m)
          /\ (ClipCalled(q) /\ optim_state[q] = "UNSCALED") =>
                /\ optim_state'[q] = "UNSCALED"
                /\ grad_factor'[q] = grad_factor[q]
                /\ \E m \in MaxNorms : grad'[q] = ClipGrads(q, grad[q], m)
          /\ (\E m \in MaxNorms : ClipGradNorm(q, m)) => err'[q] = "None"
          /\ (StepCalled(q) /\ last_op[q] = "clip_grad_norm") =>
                /\ grad'[q] = grad[q]
                /\ grad_factor'[q] = grad_factor[q]
                /\ optim_state'[q] = "UNSCALED"]_vars

\* backward() at scale 8, clip_grad_norm() which divided by 8 and clipped 3 to
\* 2, then an applied step() that read the gradient clip_grad_norm() left.
C11_Witness ==
    \E q \in World :
        /\ JustStepped(q, "step_apply")
        /\ pre[q].last_op = "clip_grad_norm"
        /\ pre[q].optim_state = "UNSCALED"
        /\ bw[q].scale = 8 /\ bw[q].d["w"] = Fin(3)
        /\ seen[q].factor = <<8, 8>>
        /\ seen[q].grad["w"] = Fin(2)

\* The step from s to t is a backward_by_grad() call of q.
BackwardByGradCalled(q) ==
    /\ pc[q] = "idle" /\ pc'[q] = "idle"
    /\ last_op'[q] = "backward_by_grad"
    /\ (last_op[q] # "backward_by_grad" \/ grad'[q] # grad[q] \/ grad_factor'[q] # grad_factor[q])

\* C12: backward_by_grad() only delegates.  Whatever the phase it is called
\* in, the loss scale, the scaler's state, the phase, the overflow flag and the
\* master parameters (the entries and the values they hold) are what they were.
C12_BackwardByGradFrame ==
    [][\A q \in World :
          BackwardByGradCalled(q) =>
              /\ grad_scaler'[q] = grad_scaler[q]
              /\ optim_state'[q] = optim_state[q]
              /\ found_overflow'[q] = found_overflow[q]
              /\ master_params'[q] = master_params[q]
              /\ \A p \in ParamsOf(q) : Master(q, p)' = Master(q, p)]_vars

\* backward_by_grad() called in phase SCALED, after an applied step() and a
\* backward(): the phase is still SCALED and the masters are where the step
\* left them.
C12_Witness ==
    \E q \in World :
        /\ pc[q] = "idle" /\ last_op[q] = "backward_by_grad"
        /\ optim_state[q] = "SCALED"
        /\ nsteps[q] = 1 /\ rlog[q][1].branch = "apply"
        /\ Master(q, "w") # InitValue("w")
        /\ grad_factor[q] = <<1, 1>>

\* Some gradient g holds for a parameter of q is inf or nan.
NonFinite(q, g) == \E p \in ParamsOf(q) : g[p].k \in {"nan", "inf"}

MasterDtype(q, p) == TensorDtype(q, p, master_params[q][p])

\* C14: construction of the master store.  The constructor fails with an
\* assertion error exactly when some parameter of some group carries a ca_attr
\* whose is_sharded is false.  Otherwise every parameter of every group has a
\* master entry and no other parameter has one; the entry holds the value of
\* the shard payload (sharded) or of p.data (plain); the master of a
\* floating-point parameter is float32, and the master of a parameter that is
\* not floating-point is its source, unconverted.
C14_MasterStore ==
    \A q \in World :
        /\ pc[q] = "halted" =>
              (err[q] = "AssertionError" /\ CaAttrUnsharded(param_groups[q])
                 /\ \A p \in Params : master_params[q][p] = "none")
        /\ pc[q] = "idle" =>
              /\ ~CaAttrUnsharded(param_groups[q])
              /\ err[q] = "None"
              /\ \A p \in Params : p \in ParamsOf(q) <=> master_params[q][p] # "none"
              /\ \A p \in ParamsOf(q) :
                    /\ Master(q, p) = InitValue(p)
                    /\ Master(q, p) = tensor[q][p][IF HasCaAttr(p) THEN "payload" ELSE "data0"]
                    /\ dtype[q][p] \in {"half", "float"} => MasterDtype(q, p) = "float"
                    /\ dtype[q][p] = "int" =>
                          /\ MasterDtype(q, p) = "int"
                          /\ master_params[q][p] = (IF HasCaAttr(p) THEN "payload" ELSE "data0")

\* A constructed optimizer over a float16 sharded parameter and an integer
\* plain one: a float32 copy of the payload, and the data itself.
C14_Witness ==
    \E q \in World :
        /\ pc[q] = "idle" /\ last_op[q] = "init"
        /\ param_groups[q] = << <<"s", "w">> >>
        /\ dtype[q]["s"] = "half" /\ dtype[q]["w"] = "int"
        /\ master_params[q]["s"] = "fp32" /\ Master(q, "s") = Payload(q, "s")
        /\ master_params[q]["w"] = "data0"
        /\ master_params[q]["u"] = "none"

\* A constructor that has failed on the parameter with the unsharded ca_attr.
C14_WitnessAssertion ==
    \E q \in World :
        /\ pc[q] = "halted" /\ err[q] = "AssertionError"
        /\ param_groups[q] = << <<"s">>, <<"w", "u">> >>

\* C15: the masters are the optimizer's own.  No operation outside step()
\* (backward, backward_by_grad, clip_grad_norm, a write of the forward/backward
\* pass to a working parameter) changes the value of a master parameter, and
\* the tensor the forward/backward pass reads and writes, p.data, is never the
\* master tensor.
C15_MasterOwned ==
    [][\A q \in World :
          /\ (pc[q] = "idle" /\ pc'[q] = "idle") =>
                \A p \in ParamsOf(q) : Master(q, p)' = Master(q, p)
          /\ pc[q] = "idle" =>
                \A p \in ParamsOf(q) : p_data[q][p] # master_params[q][p]]_vars

\* The dtype of p.data, the working parameter.
DataDtype(q, p) == TensorDtype(q, p, p_data[q][p])

CleanRound(k) == \A r \in World : Began(r, k) /\ ~rlog[r][k].held

\* C17: no stale overflow.  A process that has finished its k-th step() in a
\* round in which no process held an inf or nan gradient found no overflow and
\* applied the update, whatever the rounds before found.
C17_NoStaleOverflow ==
    \A k \in 1..MaxRounds : \A q \in World :
        (Returned(q, k) /\ CleanRound(k)) =>
            (~rlog[q][k].found /\ rlog[q][k].branch = "apply")

\* A first round every process skipped over <<1, 1>>'s nan, then a clean
\* second round that <<0, 0>> and <<1, 1>> have applied.
C17_Witness ==
    /\ \A q \in World : Returned(q, 1) /\ rlog[q][1].found
    /\ rlog[<<1, 1>>][1].held /\ ~rlog[<<0, 0>>][1].held
    /\ CleanRound(2)
    /\ Returned(<<0, 0>>, 2) /\ rlog[<<0, 0>>][2].branch = "apply"
    /\ Returned(<<1, 1>>, 2) /\ rlog[<<1, 1>>][2].branch = "apply"

\* C18: the public operations never trip the assertion of _unscale_grads.  In
\* any sequence of backward(), backward_by_grad(), clip_grad_norm() and step()
\* calls no process is halted by an exception, and the gradients have been
\* divided by the loss scale at most once since the last backward().
C18_UnscaleAtMostOnce ==
    \A q \in World :
        /\ err[q] = "None" /\ pc[q] # "halted"
        /\ bw[q].unscales <= 1
        /\ bw[q].unscales = 1 => optim_state[q] = "UNSCALED"

\* backward(), clip_grad_norm(), two step() calls and clip_grad_norm() again:
\* one division, by the 8 of the backward(), and no exception.
C18_Witness ==
    \E q \in World :
        /\ pc[q] = "idle" /\ last_op[q] = "clip_grad_norm"
        /\ nsteps[q] = 2 /\ pre[q].last_op = "step_apply"
        /\ rlog[q][1].branch = "apply" /\ rlog[q][2].branch = "apply"
        /\ bw[q].scale = 8 /\ bw[q].unscales = 1
        /\ grad_factor[q] = <<8, 8>>
        /\ err[q] = "None"

\* C19: the scale of the unscale is the scale of the backward().  While the
\* gradients are SCALED the loss scale is still the one the most recent
\* backward() multiplied the loss by, and every unscale, inside step() or
\* clip_grad_norm() or called directly, divides by that scale.
C19_UnscaleByBackwardScale ==
    [][\A q \in World :
          /\ optim_state'[q] = "SCALED" => grad_scaler'[q].scale = bw'[q].scale
          /\ bw'[q].unscales = bw[q].unscales + 1 =>
                /\ optim_state[q] = "SCALED"
                /\ loss_scale(q) = bw[q].scale
                /\ grad_factor'[q] = <<grad_factor[q][1], grad_factor[q][2] * bw[q].scale>>]_vars

\* A clean step() has grown the scale from 8 to 16; the next backward()
\* multiplied by 16 and clip_grad_norm() divided by 16.
C19_Witness ==
    \E q \in World :
        /\ pc[q] = "idle" /\ last_op[q] = "clip_grad_norm"
        /\ nsteps[q] = 1 /\ rlog[q][1].branch = "apply"
        /\ init_args.initial_scale = 8
        /\ bw[q].scale = 16 /\ bw[q].unscales = 1
        /\ grad_factor[q] = <<16, 16>>

\* C20: the processes never diverge.  Two processes that have made the same
\* number of step() calls and are out of step() hold the same scaler (scale,
\* counters and history of updates), and took the same branch in every round
\* both have finished.
C20_NoDivergence ==
    \A q \in World : \A r \in World :
        /\ (pc[q] = "idle" /\ pc[r] = "idle" /\ nsteps[q] = nsteps[r]) =>
              grad_scaler[q] = grad_scaler[r]
        /\ \A k \in 1..MaxRounds :
              (Returned(q, k) /\ Returned(r, k)) => rlog[q][k].branch = rlog[r][k].branch

\* Every process has finished MaxRounds rounds, the first one skipped over
\* <<0, 0>>'s nan alone: all four scalers were backed off to 4.
C20_Witness ==
    /\ \A q \in World : pc[q] = "idle" /\ nsteps[q] = MaxRounds /\ Returned(q, MaxRounds)
    /\ rlog[<<0, 0>>][1].held
    /\ \A q \in World \ {<<0, 0>>} : ~rlog[q][1].held
    /\ \A q \in World : grad_scaler[q].log[1] = [found_inf |-> TRUE, scale |-> 4]
    /\ \A q \in World : rlog[q][1].branch = "skip"

====
